---- MODULE Spec2Model ----
(***************************************************************************)
(* Exam portal core: paper selection, exam sessions, answer recording and  *)
(* the deletion cascade of question papers.                                *)
(*                                                                         *)
(* The store is the relational database behind the Django models of        *)
(* src/questions/models.py plus results.CandidateAnswer.  One HTTP request *)
(* to exam_interface (src/registration/views.py) is a small process: its   *)
(* reads, the session creation and the answer submission are separate      *)
(* database transactions, so requests interleave between them.             *)
(***************************************************************************)
EXTENDS Integers, Sequences, FiniteSets

----------------------------------------------------------------------------
(* Bounds of the explored universe *)

NumPapers == 2
NumQuestions == 2
NumCandidates == 1
NumRequests == 2
MaxBody == 2
MaxEdits == 1

Papers == 1..NumPapers
Questions == 1..NumQuestions
Candidates == 1..NumCandidates
Requests == 1..NumRequests

(* registration.models.CAT_CHOICES, two of the three categories *)
Cats == {"JCO", "OR"}
NoTrade == 0
(* CandidateProfile.shift is null *)
NoShift == 0
Trades == {1}

(* a null DateTimeField *)
Null == 0

(* no paper found by a query *)
NoPaper == 0

(* Posted text values are strings over a two-letter alphabet with a space   *)
(* (0): "a" and " b".                                                       *)
Space == 0
RawTexts == {<<1>>, <<Space, 2>>}
Empty == <<>>

VARIABLES
    candidates,     \* CandidateProfile rows: [id, cat, trade, shift] (id is also the user)
    papers,         \* QuestionPaper rows: [id, category, trade, is_active]
    questions,      \* Question rows: [id, is_active]
    links,          \* PaperQuestion rows: [paper, question]
    sessions,       \* ExamSession rows: [id, paper, user, completed_at, total_questions]
    examQuestions,  \* ExamQuestion rows: [session, question, order]
    answers,        \* CandidateAnswer rows: [candidate, paper, question, answer]
    req,            \* the requests in flight
    edits,          \* admin edits of questions and links made so far
    submitted,      \* history: per answer key the text last given to
                    \* update_or_create, <<text>>, or <<>> when none was
    cascadeError    \* the deletion hook logged an error in the latest deletion

VARIABLES
    uploads,        \* QuestionUpload rows: [id, blob, decryption_password, trade, uploaded_at]
    clock,          \* the timestamps handed out so far by timezone.now()
    up,             \* the admin request that adds a QuestionUpload
    ledger,         \* history per upload: runs of the import, records it
                    \* returned (their number and ids), the count last shown
                    \* to the uploader
    codec           \* a container on its way through the encoder and the decoder

VARIABLES
    shifts,         \* Shift rows: [id, start]
    notice,         \* the response of the latest admin or shift request
    sheet           \* a cell of a workbook row on its way through the parser

vars == <<candidates, papers, questions, links, sessions, examQuestions,
          answers, req, edits, submitted, cascadeError,
          uploads, clock, up, ledger, codec, shifts, notice, sheet>>

(* the variables of the site administration and of the row parser *)
siteVars == <<shifts, notice, sheet>>

(* the variables of the upload pipeline and of the codec *)
contentVars == <<uploads, clock, up, ledger, codec>>

(* the variables of the exam engine, the Question rows apart *)
examVars == <<candidates, papers, links, sessions, examQuestions, answers,
              req, edits, submitted, cascadeError>>

----------------------------------------------------------------------------
(* The store as one value, so that the steps of a cascade compose *)

Store ==
    [papers |-> papers, questions |-> questions, links |-> links,
     sessions |-> sessions, examQuestions |-> examQuestions, answers |-> answers]

AnswerKeys == Candidates \X Papers \X Questions

KeyOf(a) == <<a.candidate, a.paper, a.question>>

RowsOfKey(A, k) == {a \in A : KeyOf(a) = k}

PaperIds(P) == {p.id : p \in P}

QuestionIds(Q) == {q.id : q \in Q}

MaxOf(S) == CHOOSE x \in S : \A y \in S : y <= x

(* str.strip(): leading and trailing spaces removed *)
RECURSIVE LStrip(_)
LStrip(s) ==
    IF s = <<>> THEN s
    ELSE IF Head(s) = Space THEN LStrip(Tail(s)) ELSE s

RECURSIVE RStrip(_)
RStrip(s) ==
    IF s = <<>> THEN s
    ELSE IF s[Len(s)] = Space THEN RStrip(SubSeq(s, 1, Len(s) - 1)) ELSE s

Strip(s) == RStrip(LStrip(s))

----------------------------------------------------------------------------
(* Paper selection, exam_interface lines 92-151 *)

ActiveQuestionIds(Q) == {q.id : q \in {x \in Q : x.is_active}}

(* annotate(num_qs=Count(... question__is_active=True)).filter(num_qs__gt=0) *)
HasActiveQuestion(st, pid) ==
    \E l \in st.links : l.paper = pid /\ l.question \in ActiveQuestionIds(st.questions)

(* variant: the count of active questions is not looked at *)
Eligible_ActiveOnly(st, P) == {p \in P : p.is_active}

Eligible(st, P) == {p \in P : p.is_active /\ HasActiveQuestion(st, p.id)}

(* variant: order_by("id") *)
FirstById_Oldest(P) ==
    IF P = {} THEN NoPaper ELSE CHOOSE i \in {p.id : p \in P} : \A p \in P : i <= p.id

(* order_by("-id").first() *)
FirstById(P) == IF P = {} THEN NoPaper ELSE MaxOf({p.id : p \in P})

(* variant: tier 1 takes the papers of the category that have no trade *)
Tier1_WithoutTrade(st, c) ==
    Eligible(st, {p \in st.papers : p.category = c.cat /\ p.trade = NoTrade})

Tier1(st, c) == Eligible(st, {p \in st.papers : p.category = c.cat})

Tier2(st, c) == Eligible(st, {p \in st.papers : p.category = c.cat /\ p.trade = c.trade})

Tier3(st, c) == Eligible(st, {p \in st.papers : p.trade = c.trade})

Tier4(st, c) == Eligible(st, st.papers)

(* variant: the paper numbered as the candidate is preferred *)
Select_ByCandidate(st, c) ==
    LET own == Eligible(st, {p \in st.papers : p.id = c.id})
    IN IF own # {} THEN FirstById(own)
       ELSE IF c.cat # "" /\ Tier1(st, c) # {} THEN FirstById(Tier1(st, c))
       ELSE IF c.trade # NoTrade /\ Tier3(st, c) # {} THEN FirstById(Tier3(st, c))
       ELSE FirstById(Tier4(st, c))

Select(st, c) ==
    LET p1 == IF c.cat # "" THEN FirstById(Tier1(st, c)) ELSE NoPaper
        p2 == IF p1 = NoPaper /\ c.cat # "" /\ c.trade # NoTrade
              THEN FirstById(Tier2(st, c)) ELSE p1
        p3 == IF p2 = NoPaper /\ c.trade # NoTrade
              THEN FirstById(Tier3(st, c)) ELSE p2
        p4 == IF p3 = NoPaper THEN FirstById(Tier4(st, c)) ELSE p3
    IN p4

----------------------------------------------------------------------------
(* Session lookup and creation *)

SessionsOf(S, pid, uid) == {s \in S : s.paper = pid /\ s.user = uid}

(* A session's primary key is written <<paper, user, k>>: it is the k-th     *)
(* session started for the pair, so keys are unique and, within a pair,     *)
(* ordered as started_at.                                                   *)
NoSession == <<0, 0, 0>>

NewSessionId(S, pid, uid) == <<pid, uid, Cardinality(SessionsOf(S, pid, uid)) + 1>>

(* variant: the lookup sees only sessions that were completed *)
LookupSession_CompletedOnly(S, pid, uid) ==
    LET done == {s \in SessionsOf(S, pid, uid) : s.completed_at # Null}
    IN IF done = {} THEN NoSession
       ELSE <<pid, uid, MaxOf({s.id[3] : s \in done})>>

(* ExamSession.objects.filter(paper, user).order_by("-started_at").first() *)
LookupSession(S, pid, uid) ==
    IF SessionsOf(S, pid, uid) = {} THEN NoSession
    ELSE LET last == MaxOf({s.id[3] : s \in SessionsOf(S, pid, uid)})
         IN <<pid, uid, last>>

SessionById(S, sid) == CHOOSE s \in S : s.id = sid

(* session.questions filtered by eq.question.is_active *)
SnapshotOf(EQ, sid) == {e.question : e \in {x \in EQ : x.session = sid}}

ActiveSnapshot(st, sid) == SnapshotOf(st.examQuestions, sid) \cap ActiveQuestionIds(st.questions)

(* variant: the links are not filtered by question__is_active *)
PaperQuestions_AllLinked(st, pid) == {l.question : l \in {x \in st.links : x.paper = pid}}

(* paperquestion_set.filter(question__is_active=True) *)
PaperQuestions(st, pid) ==
    {l.question : l \in {x \in st.links : x.paper = pid}} \cap ActiveQuestionIds(st.questions)

(* variant: positions are drawn independently, a question may come twice *)
Orderings_WithRepeats(S) == [1..Cardinality(S) -> S]

(* random.shuffle: every ordering of the list *)
Orderings(S) ==
    {f \in [1..Cardinality(S) -> S] : \A i, j \in 1..Cardinality(S) : f[i] = f[j] => i = j}

----------------------------------------------------------------------------
(* results.CandidateAnswer: one row per (candidate, paper, question) *)

(* bulk_create of rows: refused as a whole when a key is already taken *)
AnswerConflict(A, rows) == \E a \in A : \E b \in rows : KeyOf(a) = KeyOf(b)

(* a Question row that answers still reference cannot be deleted *)
AnswersProtect(A, Q) == \E a \in A : a.question \in Q

(* variant: get_or_create, an existing row keeps its text *)
UpdateOrCreate_KeepExisting(A, k, text) ==
    IF RowsOfKey(A, k) # {} THEN A
    ELSE A \cup {[candidate |-> k[1], paper |-> k[2], question |-> k[3], answer |-> text]}

(* CandidateAnswer.objects.update_or_create(candidate, paper, question, defaults={"answer": text}) *)
UpdateOrCreate(A, k, text) ==
    (A \ RowsOfKey(A, k)) \cup
        {[candidate |-> k[1], paper |-> k[2], question |-> k[3], answer |-> text]}

----------------------------------------------------------------------------
(* QuestionPaper.generate_for_candidate, models.py lines 242-322.            *)
(* Returns the store after the atomic block, for the ordering `ord` drawn by *)
(* the shuffle; `raised` tells that the block failed and nothing was kept.   *)

(* variant: the session and its snapshot without the answer stubs *)
GenerateForCandidate_NoStubs(st, pid, uid, ord) ==
    LET n == Len(ord)
        sid == NewSessionId(st.sessions, pid, uid)
        session == [id |-> sid, paper |-> pid, user |-> uid,
                    completed_at |-> Null, total_questions |-> n]
        rows == {[session |-> sid, question |-> ord[i], order |-> i] : i \in 1..n}
    IN [st |-> [st EXCEPT !.sessions = @ \cup {session},
                          !.examQuestions = @ \cup rows],
        raised |-> FALSE]

(* variant: without transaction.atomic, the rows written before the        *)
(* failing statement stay                                                   *)
GenerateForCandidate_NoRollback(st, pid, uid, ord) ==
    LET n == Len(ord)
        sid == NewSessionId(st.sessions, pid, uid)
        session == [id |-> sid, paper |-> pid, user |-> uid,
                    completed_at |-> Null, total_questions |-> 0]
        rows == {[session |-> sid, question |-> ord[i], order |-> i] : i \in 1..n}
        stubs == {[candidate |-> uid, paper |-> pid, question |-> ord[i],
                   answer |-> Empty] : i \in 1..n}
    IN IF AnswerConflict(st.answers, stubs)
       THEN [st |-> [st EXCEPT !.sessions = @ \cup {session},
                               !.examQuestions = @ \cup rows],
             raised |-> TRUE]
       ELSE [st |-> [st EXCEPT !.sessions = @ \cup {[session EXCEPT !.total_questions = n]},
                               !.examQuestions = @ \cup rows,
                               !.answers = @ \cup stubs],
             raised |-> FALSE]

GenerateForCandidate(st, pid, uid, ord) ==
    LET n == Len(ord)
        sid == NewSessionId(st.sessions, pid, uid)
        session == [id |-> sid, paper |-> pid, user |-> uid,
                    completed_at |-> Null, total_questions |-> n]
        rows == {[session |-> sid, question |-> ord[i], order |-> i] : i \in 1..n}
        stubs == {[candidate |-> uid, paper |-> pid, question |-> ord[i],
                   answer |-> Empty] : i \in 1..n}
    IN IF AnswerConflict(st.answers, stubs)
       THEN [st |-> st, raised |-> TRUE]
       ELSE [st |-> [st EXCEPT !.sessions = @ \cup {session},
                               !.examQuestions = @ \cup rows,
                               !.answers = @ \cup stubs],
             raised |-> FALSE]

----------------------------------------------------------------------------
(* Deletion *)

(* variant: ExamQuestion.question does not cascade *)
QuestionDelete_KeepSnapshotRows(st, Q) ==
    IF AnswersProtect(st.answers, Q)
    THEN [st |-> st, raised |-> TRUE]
    ELSE [st |-> [st EXCEPT !.questions = {q \in @ : q.id \notin Q},
                            !.links = {l \in @ : l.question \notin Q}],
          raised |-> FALSE]

(* Question.objects.filter(id__in=Q).delete(): the rows that CASCADE from a  *)
(* Question are its PaperQuestion and ExamQuestion rows; answers protect it. *)
QuestionDelete(st, Q) ==
    IF AnswersProtect(st.answers, Q)
    THEN [st |-> st, raised |-> TRUE]
    ELSE [st |-> [st EXCEPT !.questions = {q \in @ : q.id \notin Q},
                            !.links = {l \in @ : l.question \notin Q},
                            !.examQuestions = {e \in @ : e.question \notin Q}],
          raised |-> FALSE]

LinkedIds(st, pid) == {l.question : l \in {x \in st.links : x.paper = pid}}

(* variant: the hook deletes the questions without clearing their answers *)
DeleteLinkedQuestions_KeepAnswers(st, pid, fault) ==
    LET q_ids == LinkedIds(st, pid)
    IN IF q_ids = {} THEN [st |-> st, raised |-> FALSE]
       ELSE IF fault \in {"answers", "questions"} THEN [st |-> st, raised |-> TRUE]
       ELSE QuestionDelete(st, q_ids)

(* the pre_delete hook delete_linked_questions, signals.py lines 14-53.      *)
(* fault names the statement of the try block that raises, if any.           *)
DeleteLinkedQuestions(st, pid, fault) ==
    LET q_ids == LinkedIds(st, pid)
        st1 == [st EXCEPT !.answers = {a \in @ : a.question \notin q_ids}]
    IN IF q_ids = {} THEN [st |-> st, raised |-> FALSE]
       ELSE IF fault = "answers" THEN [st |-> st, raised |-> TRUE]
       ELSE IF fault = "questions" THEN [st |-> st1, raised |-> TRUE]
       ELSE QuestionDelete(st1, q_ids)

(* the rows Django collects from the papers D and deletes with them *)
CollectAndDelete(st, D) ==
    LET gone == {s.id : s \in {x \in st.sessions : x.paper \in D}}
    IN [st EXCEPT !.papers = {p \in @ : p.id \notin D},
                  !.links = {l \in @ : l.paper \notin D},
                  !.sessions = {s \in @ : s.paper \notin D},
                  !.examQuestions = {e \in @ : e.session \notin gone},
                  !.answers = {a \in @ : a.paper \notin D}]

(* pre_delete is sent once per collected paper, newest paper first *)
RECURSIVE SendPreDelete(_, _, _)
SendPreDelete(st, D, fault) ==
    IF D = {} THEN [st |-> st, raised |-> FALSE]
    ELSE LET p == MaxOf(D)
             r == DeleteLinkedQuestions(st, p, fault)
             rest == SendPreDelete(r.st, D \ {p}, fault)
         IN [st |-> rest.st, raised |-> r.raised \/ rest.raised]

(* QuerySet.delete() / Model.delete() of django: hooks, then the rows *)
QuerySetDelete(st, D, fault) ==
    LET r == SendPreDelete(st, D, fault)
    IN [st |-> CollectAndDelete(r.st, D), raised |-> r.raised]

(* QuestionPaper.delete, models.py lines 134-144: the loop over q_ids; an   *)
(* exception of Question.delete is passed over                              *)
RECURSIVE DeleteExclusive(_, _, _)
DeleteExclusive(st, pid, Q) ==
    IF Q = {} THEN [st |-> st, raised |-> FALSE]
    ELSE LET qid == MaxOf(Q)
             other_rel_count ==
                 Cardinality({l \in st.links : l.question = qid /\ l.paper # pid})
             r == IF other_rel_count = 0 THEN QuestionDelete(st, {qid})
                  ELSE [st |-> st, raised |-> FALSE]
             rest == DeleteExclusive(r.st, pid, Q \ {qid})
         IN [st |-> rest.st, raised |-> r.raised \/ rest.raised]

(* variant: super().delete() without the pre_delete hook *)
ModelDelete_NoHook(st, pid, fault) ==
    LET own == DeleteExclusive(st, pid, LinkedIds(st, pid))
    IN [st |-> CollectAndDelete(own.st, {pid}), raised |-> own.raised]

ModelDelete(st, pid, fault) ==
    LET own == DeleteExclusive(st, pid, LinkedIds(st, pid))
        r == QuerySetDelete(own.st, {pid}, fault)
    IN [st |-> r.st, raised |-> own.raised \/ r.raised]

(* The order in which the statements of a deletion remove rows: a sequence   *)
(* of events, "answers" with the answer rows a statement removed and         *)
(* "question" with the ids of the Question rows a statement removed.         *)
QuestionDeleteOrder(st, Q) ==
    IF AnswersProtect(st.answers, Q) \/ QuestionIds(st.questions) \cap Q = {}
    THEN <<>>
    ELSE <<[kind |-> "question", ids |-> QuestionIds(st.questions) \cap Q, rows |-> {}]>>

(* signals.py lines 45-49: the answers, then the questions *)
DeleteLinkedQuestionsOrder(st, pid) ==
    LET q_ids == LinkedIds(st, pid)
        gone == {a \in st.answers : a.question \in q_ids}
        st1 == [st EXCEPT !.answers = @ \ gone]
    IN IF q_ids = {} THEN <<>>
       ELSE <<[kind |-> "answers", ids |-> q_ids, rows |-> gone]>>
            \o QuestionDeleteOrder(st1, q_ids)

(* models.py lines 137-143: one Question delete per exclusive question *)
RECURSIVE DeleteExclusiveOrder(_, _, _)
DeleteExclusiveOrder(st, pid, Q) ==
    IF Q = {} THEN <<>>
    ELSE LET qid == MaxOf(Q)
             other_rel_count ==
                 Cardinality({l \in st.links : l.question = qid /\ l.paper # pid})
             r == IF other_rel_count = 0 THEN QuestionDelete(st, {qid})
                  ELSE [st |-> st, raised |-> FALSE]
             first == IF other_rel_count = 0 THEN QuestionDeleteOrder(st, {qid})
                      ELSE <<>>
         IN first \o DeleteExclusiveOrder(r.st, pid, Q \ {qid})

(* the bulk path: the hook alone *)
QuerySetDeleteOrder(st, pid) == DeleteLinkedQuestionsOrder(st, pid)

(* the single-record path: the loop of QuestionPaper.delete, then the hook *)
ModelDeleteOrder(st, pid) ==
    LET own == DeleteExclusive(st, pid, LinkedIds(st, pid))
    IN DeleteExclusiveOrder(st, pid, LinkedIds(st, pid))
       \o DeleteLinkedQuestionsOrder(own.st, pid)

Faults == {"answers", "questions"}

----------------------------------------------------------------------------
(* exam_interface, views.py lines 75-283 *)

Methods == {"GET", "POST"}

(* no admin or shift request was answered since the latest other step *)
NoNotice == [kind |-> "none", count |-> 0]

Idle == [pc |-> "idle", user |-> 0, method |-> "GET", paper |-> NoPaper,
         sid |-> NoSession, outcome |-> "none"]

(* the response: only what the client is given stays in the slot; the      *)
(* rendered exam page carries the session, a redirect carries none          *)
Done(uid, m, pid, sid, outcome) ==
    [pc |-> "done", user |-> uid, method |-> "GET", paper |-> NoPaper,
     sid |-> IF outcome = "rendered" THEN sid ELSE NoSession,
     outcome |-> outcome]

(* variant: the view without the completed_at guard of lines 184-197 *)
AfterSession_NoGuard(st, uid, m, pid, sid) ==
    IF ActiveSnapshot(st, sid) = {} THEN Done(uid, m, pid, sid, "no_questions")
    ELSE IF m = "POST"
         THEN [pc |-> "post", user |-> uid, method |-> m, paper |-> pid,
               sid |-> sid, outcome |-> "none"]
         ELSE Done(uid, m, pid, sid, "rendered")

(* lines 184-215 and 276-283: what the view does once it holds a session *)
AfterSession(st, uid, m, pid, sid) ==
    LET session == SessionById(st.sessions, sid)
    IN IF session.completed_at # Null
       THEN IF m = "POST" THEN Done(uid, m, pid, sid, "cannot_resubmit")
            ELSE Done(uid, m, pid, sid, "already_submitted")
       ELSE IF ActiveSnapshot(st, sid) = {} THEN Done(uid, m, pid, sid, "no_questions")
       ELSE IF m = "POST"
            THEN [pc |-> "post", user |-> uid, method |-> m, paper |-> pid,
                  sid |-> sid, outcome |-> "none"]
            ELSE Done(uid, m, pid, sid, "rendered")

(* lines 83-169: profile, paper selection and session lookup *)
BeginRequest(st, c, m) ==
    LET pid == Select(st, c)
        sid == IF pid = NoPaper THEN NoSession ELSE LookupSession(st.sessions, pid, c.id)
    IN IF pid = NoPaper THEN Done(c.id, m, NoPaper, NoSession, "no_paper")
       ELSE IF sid = NoSession
            THEN [pc |-> "create", user |-> c.id, method |-> m, paper |-> pid,
                  sid |-> NoSession, outcome |-> "none"]
            ELSE AfterSession(st, c.id, m, pid, sid)

(* the POST body: pairs <<question id, text>> in the order of request.POST *)
Bodies == UNION {[1..n -> Questions \X RawTexts] : n \in 0..MaxBody}

(* Question.objects.get(id=qid, is_active=True) succeeds *)
Resolves(st, qid) == qid \in ActiveQuestionIds(st.questions)

(* lines 238-252: the loop over the posted items *)
RECURSIVE SubmitAnswers(_, _, _, _, _)
SubmitAnswers(st, A, uid, pid, body) ==
    IF body = <<>> THEN A
    ELSE LET qid == Head(body)[1]
             text == Strip(Head(body)[2])
             A1 == IF Resolves(st, qid)
                   THEN UpdateOrCreate(A, <<uid, pid, qid>>, text)
                   ELSE A
         IN SubmitAnswers(st, A1, uid, pid, Tail(body))

(* history of the same loop: the text last written for each key *)
RECURSIVE SubmittedTexts(_, _, _, _, _)
SubmittedTexts(st, h, uid, pid, body) ==
    IF body = <<>> THEN h
    ELSE LET qid == Head(body)[1]
             h1 == IF Resolves(st, qid)
                   THEN [h EXCEPT ![<<uid, pid, qid>>] = <<Strip(Head(body)[2])>>]
                   ELSE h
         IN SubmittedTexts(st, h1, uid, pid, Tail(body))

(* ExamSession.finish on the session object the request holds: save() writes *)
(* the row with completed_at = timezone.now(), a value later than any the    *)
(* row held.  completed_at is kept as the rank of that timestamp among the   *)
(* ones the session was given: 1 for the first completion, 2 for the next.   *)
Finish(S, sid) ==
    {IF s.id = sid THEN [s EXCEPT !.completed_at = @ + 1] ELSE s : s \in S}

(* the history is kept for the rows that still exist *)
Prune(h, A) == [k \in AnswerKeys |-> IF RowsOfKey(A, k) = {} THEN <<>> ELSE h[k]]

SetStore(st) ==
    /\ papers' = st.papers
    /\ questions' = st.questions
    /\ links' = st.links
    /\ sessions' = st.sessions
    /\ examQuestions' = st.examQuestions
    /\ answers' = st.answers
    /\ submitted' = Prune(submitted, st.answers)

storeVars == <<papers, questions, links, sessions, examQuestions, answers, submitted>>

(* a request arrives: GET or POST of exam_interface by a logged-in candidate *)
Begin(r) ==
    /\ req[r].pc \in {"idle", "done"}
    /\ \A r2 \in Requests : r2 < r => req[r2].pc \notin {"idle", "done"}
    /\ \E c \in candidates : \E m \in Methods :
           req' = [req EXCEPT ![r] = BeginRequest(Store, c, m)]
    /\ cascadeError' = FALSE
    /\ notice' = NoNotice
    /\ UNCHANGED <<candidates, storeVars, edits>>
    /\ UNCHANGED contentVars
    /\ UNCHANGED <<shifts, sheet>>

(* lines 170-182: no session was found, generate_for_candidate *)
Create(r) ==
    /\ req[r].pc = "create"
    /\ LET uid == req[r].user
           m == req[r].method
           pid == req[r].paper
           pq == PaperQuestions(Store, pid)
       IN IF pq = {}
          THEN \* ValidationError: "Exam cannot be started"
               /\ req' = [req EXCEPT ![r] = Done(uid, m, pid, NoSession, "no_content")]
               /\ UNCHANGED storeVars
          ELSE \E ord \in Orderings(pq) :
                 LET g == GenerateForCandidate(Store, pid, uid, ord)
                 IN IF g.raised
                    THEN \* any other exception: "Unexpected error"
                         /\ SetStore(g.st)
                         /\ req' = [req EXCEPT ![r] =
                                       Done(uid, m, pid, NoSession, "not_started")]
                    ELSE /\ SetStore(g.st)
                         /\ req' = [req EXCEPT ![r] =
                                       AfterSession(g.st, uid, m, pid,
                                                    NewSessionId(sessions, pid, uid))]
    /\ cascadeError' = FALSE
    /\ notice' = NoNotice
    /\ UNCHANGED <<candidates, edits>>
    /\ UNCHANGED contentVars
    /\ UNCHANGED <<shifts, sheet>>

(* lines 217-274: the POST branch *)
Commit(r) ==
    /\ req[r].pc = "post"
    /\ LET uid == req[r].user
           pid == req[r].paper
           sid == req[r].sid
       IN \/ \* the posted session_id differs from the session's
             /\ req' = [req EXCEPT ![r] = Done(uid, "POST", pid, sid, "invalid_session")]
             /\ UNCHANGED storeVars
          \/ \* the session row is gone: the transaction cannot commit
             /\ ~(\E s \in sessions : s.id = sid)
             /\ req' = [req EXCEPT ![r] = Done(uid, "POST", pid, sid, "error")]
             /\ UNCHANGED storeVars
          \/ \* the atomic block: the answers, then session.finish()
             /\ \E s \in sessions : s.id = sid
             /\ \E body \in Bodies :
                  /\ answers' = SubmitAnswers(Store, answers, uid, pid, body)
                  /\ submitted' = SubmittedTexts(Store, submitted, uid, pid, body)
             /\ sessions' = Finish(sessions, sid)
             /\ req' = [req EXCEPT ![r] = Done(uid, "POST", pid, sid, "submitted")]
             /\ UNCHANGED <<papers, questions, links, examQuestions>>
    /\ cascadeError' = FALSE
    /\ notice' = NoNotice
    /\ UNCHANGED <<candidates, edits>>
    /\ UNCHANGED contentVars
    /\ UNCHANGED <<shifts, sheet>>

----------------------------------------------------------------------------
(* Admin operations *)

(* QuestionAdmin change form: the is_active flag of a question *)
SetQuestionActive(q) ==
    /\ q \in questions
    /\ edits < MaxEdits
    /\ edits' = edits + 1
    /\ questions' = (questions \ {q}) \cup {[q EXCEPT !.is_active = ~q.is_active]}
    /\ UNCHANGED <<candidates, papers, links, sessions, examQuestions, answers,
                   submitted, req>>
    /\ cascadeError' = FALSE
    /\ notice' = NoNotice
    /\ UNCHANGED contentVars
    /\ UNCHANGED <<shifts, sheet>>

(* PaperQuestionInline: a question is linked to a paper *)
LinkQuestion(pid, qid) ==
    /\ \E p \in papers : p.id = pid
    /\ \E q \in questions : q.id = qid
    /\ [paper |-> pid, question |-> qid] \notin links
    /\ edits < MaxEdits
    /\ edits' = edits + 1
    /\ links' = links \cup {[paper |-> pid, question |-> qid]}
    /\ UNCHANGED <<candidates, papers, questions, sessions, examQuestions, answers,
                   submitted, req>>
    /\ cascadeError' = FALSE
    /\ notice' = NoNotice
    /\ UNCHANGED contentVars
    /\ UNCHANGED <<shifts, sheet>>

(* admin.py lines 183-197: the linked questions with one PaperQuestion row *)
DeletableCount(st, pid) ==
    Cardinality({q \in LinkedIds(st, pid) :
                   Cardinality({l \in st.links : l.question = q}) = 1})

(* QuestionPaperAdmin.delete_model, admin.py lines 178-205: the count is    *)
(* taken, the paper is deleted, the message tells the count                 *)
DeleteModel(pid, fault) ==
    /\ \E p \in papers : p.id = pid
    /\ LET r == ModelDelete(Store, pid, fault)
       IN /\ SetStore(r.st)
          /\ cascadeError' = r.raised
    /\ notice' = [kind |-> "deleted", count |-> DeletableCount(Store, pid)]
    /\ UNCHANGED <<candidates, req, edits>>
    /\ UNCHANGED contentVars
    /\ UNCHANGED <<shifts, sheet>>

(* the admin's "delete selected" action: QuerySet.delete() on the papers D *)
DeleteSelected(D, fault) ==
    /\ D # {}
    /\ \A pid \in D : \E p \in papers : p.id = pid
    /\ LET r == QuerySetDelete(Store, D, fault)
       IN /\ SetStore(r.st)
          /\ cascadeError' = r.raised
    /\ notice' = NoNotice
    /\ UNCHANGED <<candidates, req, edits>>
    /\ UNCHANGED contentVars
    /\ UNCHANGED <<shifts, sheet>>

----------------------------------------------------------------------------

----------------------------------------------------------------------------
(* Shifts and the wipe: registration/views.py lines 350-380,                *)
(* registration/models.py lines 160-166, registration/admin.py lines 36-99. *)
(* clock is the current time; a Shift row carries the time its window opens *)

MaxTime == 2

(* CandidateProfile.can_start_exam *)
can_start_exam(c, S, now) ==
    IF c.shift = NoShift THEN FALSE
    ELSE LET shift == CHOOSE x \in S : x.id = c.shift
         IN now >= shift.start

(* time passes *)
Tick ==
    /\ clock < MaxTime
    /\ clock' = clock + 1
    /\ UNCHANGED <<questions, examVars, siteVars, uploads, up, ledger, codec>>

(* clear_shift_and_start_exam: outside the window the request is turned     *)
(* away; otherwise the shift is cleared and the candidate is sent to        *)
(* exam_interface                                                           *)
ClearShiftAndStart(uid) ==
    /\ \E c \in candidates : c.id = uid
    /\ LET c == CHOOSE x \in candidates : x.id = uid
       IN IF c.shift # NoShift /\ ~can_start_exam(c, shifts, clock)
          THEN /\ notice' = [kind |-> "outside_window", count |-> 0]
               /\ UNCHANGED candidates
          ELSE /\ candidates' = (candidates \ {c}) \cup {[c EXCEPT !.shift = NoShift]}
               /\ notice' = [kind |-> "start", count |-> 0]
    /\ cascadeError' = FALSE
    /\ UNCHANGED <<storeVars, req, edits, shifts, sheet>>
    /\ UNCHANGED contentVars

(* Shift.objects.all().delete(): CandidateProfile.shift is on_delete=PROTECT *)
ShiftsProtected(C, S) == \E c \in C : \E x \in S : c.shift = x.id

(* lines 44-45 *)
WipeAllowed(is_superuser) == is_superuser

(* wipe_exam_data_view: the rows of every model of the listed apps are      *)
(* deleted in one transaction, User, CandidateProfile and Trade apart       *)
Wipe(is_superuser, method) ==
    /\ IF ~WipeAllowed(is_superuser)
       THEN /\ notice' = [kind |-> "forbidden", count |-> 0]
            /\ UNCHANGED <<storeVars, uploads, shifts>>
       ELSE IF method # "POST"
       THEN /\ notice' = [kind |-> "confirm", count |-> 0]
            /\ UNCHANGED <<storeVars, uploads, shifts>>
       ELSE IF ShiftsProtected(candidates, shifts)
       THEN \* ProtectedError leaves the atomic block: everything is rolled back
            /\ notice' = [kind |-> "wipe_error", count |-> 0]
            /\ UNCHANGED <<storeVars, uploads, shifts>>
       ELSE /\ SetStore([papers |-> {}, questions |-> {}, links |-> {}, sessions |-> {},
                          examQuestions |-> {}, answers |-> {}])
            /\ uploads' = {}
            /\ shifts' = {}
            /\ notice' = [kind |-> "wiped", count |-> 0]
    /\ cascadeError' = FALSE
    /\ UNCHANGED <<candidates, req, edits, sheet, clock, up, ledger, codec>>

----------------------------------------------------------------------------
(* The content container: questions/services.py lines 12-60 and the encoder  *)
(* of registration/admin.py lines 414-432.  A byte is a number in 0..255, a  *)
(* container a sequence of bytes.  PBKDF2 and AES-GCM are kept as what they  *)
(* are to the container format: a key that is a function of passphrase and   *)
(* salt, a keystream that is a function of key and nonce, and a 16-byte tag  *)
(* that is a function of key, nonce and ciphertext.                          *)

SALT_SIZE == 16
IV_SIZE == 12
TAG_SIZE == 16
Byte == 256

RECURSIVE SumOf(_)
SumOf(s) == IF s = <<>> THEN 0 ELSE Head(s) + SumOf(Tail(s))

(* s[a:b] of Python for 0 <= a, b <= len(s) *)
Slice(s, a, b) == IF b <= a THEN <<>> ELSE SubSeq(s, a + 1, b)

(* derive_key: PBKDF2-HMAC-SHA256 of the encoded passphrase and the salt *)
derive_key(password, salt) == [password |-> password, salt |-> salt]

(* the keystream byte of AES in counter mode at position i *)
KeyStream(key, iv, i) ==
    (SumOf(key.password) * 7 + SumOf(key.salt) * 3 + SumOf(iv) + i) % Byte


(* the GCM authentication tag *)
AuthTag(key, iv, ciphertext) ==
    LET digest == SumOf(key.password) * 31 + SumOf(key.salt) + SumOf(iv) * 5
                  + SumOf(ciphertext)
    IN [i \in 1..TAG_SIZE |-> (digest + i) % Byte]

(* AESGCM(key).encrypt(iv, data, None): the ciphertext with the tag appended *)
AesGcmEncrypt(key, iv, data) ==
    LET ciphertext == [i \in 1..Len(data) |-> (data[i] + KeyStream(key, iv, i)) % Byte]
    IN ciphertext \o AuthTag(key, iv, ciphertext)

(* _encrypt_bytes_to_dat with the salt and the nonce that os.urandom gave *)
EncryptBytesToDat(data, passphrase, salt, iv) ==
    IF passphrase = <<>>
    THEN [ok |-> FALSE, data |-> <<>>]
    ELSE [ok |-> TRUE,
          data |-> salt \o iv \o AesGcmEncrypt(derive_key(passphrase, salt), iv, data)]

(* variant: a file of exactly the minimum length is refused *)
is_encrypted_dat_Strict(file_data) == Len(file_data) > SALT_SIZE + IV_SIZE + 16

is_encrypted_dat(file_data) == Len(file_data) >= SALT_SIZE + IV_SIZE + 16

(* the ValueError messages of decrypt_dat_content: lines 35, 44 and 60 *)
NoError == "none"
TooShort == "File too short to be valid encrypted data"
InvalidLength == "Invalid ciphertext length"
DecryptionFailed == "Decryption failed - invalid password or corrupted file"

(* variant: the plaintext is returned without the check of the tag *)
decrypt_dat_content_Unverified(encrypted_data, password) ==
    IF Len(encrypted_data) < SALT_SIZE + IV_SIZE + 16
    THEN [ok |-> FALSE, data |-> <<>>, error |-> TooShort]
    ELSE LET n == Len(encrypted_data)
             salt == Slice(encrypted_data, 0, SALT_SIZE)
             iv == Slice(encrypted_data, SALT_SIZE, SALT_SIZE + IV_SIZE)
             ciphertext == Slice(encrypted_data, SALT_SIZE + IV_SIZE, n - 16)
             key == derive_key(password, salt)
         IN [ok |-> TRUE, error |-> NoError,
             data |-> [i \in 1..Len(ciphertext) |->
                         (ciphertext[i] + Byte - KeyStream(key, iv, i)) % Byte]]

(* variant: the tag is read from the front of the ciphertext *)
decrypt_dat_content_TagFirst(encrypted_data, password) ==
    IF Len(encrypted_data) < SALT_SIZE + IV_SIZE + 16
    THEN [ok |-> FALSE, data |-> <<>>, error |-> TooShort]
    ELSE LET n == Len(encrypted_data)
             salt == Slice(encrypted_data, 0, SALT_SIZE)
             iv == Slice(encrypted_data, SALT_SIZE, SALT_SIZE + IV_SIZE)
             auth_tag == Slice(encrypted_data, SALT_SIZE + IV_SIZE,
                               SALT_SIZE + IV_SIZE + 16)
             ciphertext == Slice(encrypted_data, SALT_SIZE + IV_SIZE + 16, n)
             key == derive_key(password, salt)
         IN IF AuthTag(key, iv, ciphertext) # auth_tag
            THEN [ok |-> FALSE, data |-> <<>>, error |-> DecryptionFailed]
            ELSE [ok |-> TRUE, error |-> NoError,
                  data |-> [i \in 1..Len(ciphertext) |->
                              (ciphertext[i] + Byte - KeyStream(key, iv, i)) % Byte]]

(* decrypt_dat_content: ok is FALSE where the code raises ValueError, and   *)
(* error is the message of that ValueError                                  *)
decrypt_dat_content(encrypted_data, password) ==
    IF Len(encrypted_data) < SALT_SIZE + IV_SIZE + 16
    THEN [ok |-> FALSE, data |-> <<>>, error |-> TooShort]
    ELSE LET n == Len(encrypted_data)
             salt == Slice(encrypted_data, 0, SALT_SIZE)
             iv == Slice(encrypted_data, SALT_SIZE, SALT_SIZE + IV_SIZE)
             ciphertext_with_tag == Slice(encrypted_data, SALT_SIZE + IV_SIZE, n)
             m == Len(ciphertext_with_tag)
             auth_tag == Slice(ciphertext_with_tag, m - 16, m)
             ciphertext == Slice(ciphertext_with_tag, 0, m - 16)
             key == derive_key(password, salt)
         IN IF m < 16
            THEN [ok |-> FALSE, data |-> <<>>, error |-> InvalidLength]
            ELSE IF AuthTag(key, iv, ciphertext) # auth_tag
            THEN [ok |-> FALSE, data |-> <<>>, error |-> DecryptionFailed]
            ELSE [ok |-> TRUE, error |-> NoError,
                  data |-> [i \in 1..Len(ciphertext) |->
                              (ciphertext[i] + Byte - KeyStream(key, iv, i)) % Byte]]

(* The explored plaintexts, passphrases, salts and nonces *)
MaxPlain == 2
PlainBytes == {0, 80, 255}
Plaintexts == UNION {[1..n -> PlainBytes] : n \in 0..MaxPlain}
Passphrases == {<<97>>, <<97, 98>>}
Salts == {[i \in 1..SALT_SIZE |-> 0], [i \in 1..SALT_SIZE |-> (17 * i) % Byte]}
Nonces == {[i \in 1..IV_SIZE |-> 255], [i \in 1..IV_SIZE |-> i]}

CodecIdle ==
    [pc |-> "idle", plain |-> <<>>, passphrase |-> <<>>, blob |-> <<>>,
     used |-> <<>>, result |-> [ok |-> FALSE, data |-> <<>>, error |-> NoError]]

(* export: a plaintext is encrypted under a passphrase *)
Encode ==
    /\ codec.pc = "plain"
    /\ \E salt \in Salts : \E iv \in Nonces :
          LET e == EncryptBytesToDat(codec.plain, codec.passphrase, salt, iv)
          IN codec' = [codec EXCEPT !.pc = IF e.ok THEN "encoded" ELSE "refused",
                                    !.blob = e.data]
    /\ UNCHANGED <<questions, examVars, siteVars, uploads, clock, up, ledger>>

(* a byte of the file is altered on the way *)
Corrupt(blob, i) == [blob EXCEPT ![i] = (@ + 1) % Byte]

(* the file arrives damaged: one byte of the salt, of the nonce or of the   *)
(* tag is altered, or the file is cut short                                 *)
Damage ==
    /\ codec.pc = "encoded"
    /\ \/ \E i \in {1, SALT_SIZE + 1, Len(codec.blob)} :
             codec' = [codec EXCEPT !.pc = "damaged", !.blob = Corrupt(codec.blob, i)]
       \/ \E n \in {0, SALT_SIZE + IV_SIZE + 16 - 1, SALT_SIZE + IV_SIZE + 16} :
             /\ n < Len(codec.blob)
             /\ codec' = [codec EXCEPT !.pc = "damaged", !.blob = Slice(codec.blob, 0, n)]
    /\ UNCHANGED <<questions, examVars, siteVars, uploads, clock, up, ledger>>

(* the container is decoded with a passphrase *)
Decode ==
    /\ codec.pc \in {"encoded", "damaged"}
    /\ \E password \in Passphrases :
          codec' = [codec EXCEPT !.pc = IF codec.pc = "encoded" THEN "decoded"
                                       ELSE "decoded_damaged",
                                 !.used = password,
                                 !.result = decrypt_dat_content(codec.blob, password)]
    /\ UNCHANGED <<questions, examVars, siteVars, uploads, clock, up, ledger>>

----------------------------------------------------------------------------
(* The importer: questions/services.py lines 62-231.                         *)
(* A text is a sequence of character codes; a row of the workbook is kept    *)
(* as the one cell that matters here, its question text.                     *)

(* str.lower() on a character code *)
Lower(c) == IF c \in 65..90 THEN c + 32 ELSE c

(* the lookup text__iexact *)
IExact(t1, t2) ==
    /\ Len(t1) = Len(t2)
    /\ \A i \in 1..Len(t1) : Lower(t1[i]) = Lower(t2[i])

(* the magic bytes b'PK' *)
PK == <<80, 75>>

StartsWithPK(data) == Len(data) >= 2 /\ SubSeq(data, 1, 2) = PK

(* A workbook is the signature followed by one byte per data row: the        *)
(* character of the row's question text, 0 for a row whose text cell is      *)
(* empty.  A byte 255 stands for an archive openpyxl cannot read, a byte 1   *)
(* for a row whose cells make the code of lines 112-168 raise.               *)
Unreadable == 255
Blank == 0
Faulty == 1

(* str.strip() and str.upper() on a cell: a cell is a sequence of           *)
(* character codes, <<>> for an empty cell                                  *)
Whitespace == {9, 10, 11, 12, 13, 32}

RECURSIVE LStripWs(_)
LStripWs(s) ==
    IF s = <<>> THEN s
    ELSE IF Head(s) \in Whitespace THEN LStripWs(Tail(s)) ELSE s

RECURSIVE RStripWs(_)
RStripWs(s) ==
    IF s = <<>> THEN s
    ELSE IF s[Len(s)] \in Whitespace THEN RStripWs(SubSeq(s, 1, Len(s) - 1)) ELSE s

Upper(s) == [i \in 1..Len(s) |-> IF s[i] \in 97..122 THEN s[i] - 32 ELSE s[i]]

(* the letters A to F *)
Parts == {<<c>> : c \in 65..70}

(* variant: the cell is compared without upper() *)
PartOf_NoUpper(cell) ==
    LET part == RStripWs(LStripWs(IF cell = <<>> THEN <<65>> ELSE cell))
    IN IF part \notin Parts THEN <<65>> ELSE part

(* lines 114 and 125-126: part = str(row[0] or 'A').strip().upper(), and   *)
(* 'A' when it is not one of the six letters                                *)
PartOf(cell) ==
    LET part == Upper(RStripWs(LStripWs(IF cell = <<>> THEN <<65>> ELSE cell)))
    IN IF part \notin Parts THEN <<65>> ELSE part

(* the part cells explored: spaces, tabs, letters in and out of A-F, digits *)
MaxCell == 3
CellChars == {32, 9, 97, 65, 102, 70, 103, 49}
PartCells == UNION {[1..n -> CellChars] : n \in 0..MaxCell}

SheetIdle == [pc |-> "idle", cell |-> <<>>, part |-> <<>>]

(* the row loop reaches a row and builds its question_data *)
ParseRow ==
    /\ sheet.pc = "cell"
    /\ sheet' = [sheet EXCEPT !.pc = "parsed", !.part = PartOf(sheet.cell)]
    /\ UNCHANGED <<questions, examVars, contentVars, shifts, notice>>

RECURSIVE RowsOf(_)
RowsOf(cells) ==
    IF cells = <<>> THEN <<>>
    ELSE IF Head(cells) = Blank THEN RowsOf(Tail(cells))
    ELSE IF Head(cells) = Faulty THEN RowsOf(Tail(cells))
    ELSE <<[text |-> <<Head(cells)>>]>> \o RowsOf(Tail(cells))

(* load_questions_from_excel_data: ok is FALSE where it raises ValueError *)
load_questions_from_excel_data(excel_data) ==
    IF ~StartsWithPK(excel_data) \/ \E i \in 1..Len(excel_data) : excel_data[i] = Unreadable
    THEN [ok |-> FALSE, questions |-> <<>>]
    ELSE LET found == RowsOf(Slice(excel_data, 2, Len(excel_data)))
         IN IF found = <<>> THEN [ok |-> FALSE, questions |-> <<>>]
            ELSE [ok |-> TRUE, questions |-> found]

(* the fields of the model Question, models.py lines 30-46 *)
QuestionFields ==
    {"id", "text", "part", "marks", "options", "correct_answer", "trade",
     "is_active", "created_at"}

(* the keyword arguments import_questions_from_dicts gives to get_or_create *)
ImportDefaults(q, trade, category, source_upload) ==
    [part |-> "A", marks |-> 1, options |-> Null, correct_answer |-> Null,
     trade |-> trade, category |-> category, upload |-> source_upload]

NextQuestionId(Q) == IF Q = {} THEN 1 ELSE MaxOf(QuestionIds(Q)) + 1

(* Question.objects.get_or_create(text=text, defaults=defaults) at time now. *)
(* A name in defaults that is not a field of Question makes the call raise   *)
(* FieldError before anything is written.                                    *)
GetOrCreate(Q, text, defaults, now) ==
    IF \E q \in Q : q.text = text
    THEN [raised |-> FALSE, was_created |-> FALSE, questions |-> Q,
          obj |-> MaxOf({q.id : q \in {x \in Q : x.text = text}})]
    ELSE IF ~(DOMAIN defaults \subseteq QuestionFields)
    THEN [raised |-> TRUE, was_created |-> FALSE, questions |-> Q, obj |-> 0]
    ELSE [raised |-> FALSE, was_created |-> TRUE, obj |-> NextQuestionId(Q),
          questions |-> Q \cup {[id |-> NextQuestionId(Q), text |-> text,
                                 is_active |-> TRUE, trade |-> defaults.trade,
                                 created_at |-> now]}]

(* variant: every row is created, with the fields Question has *)
RECURSIVE import_questions_from_dicts_NoCheck(_, _, _, _, _, _)
import_questions_from_dicts_NoCheck(Q, records, default_trade, default_category, source_upload, now) ==
    IF records = <<>>
    THEN [questions |-> Q, created |-> <<>>, skipped |-> <<>>, now |-> now]
    ELSE LET q == Head(records)
             id == NextQuestionId(Q)
             obj == [id |-> id, text |-> q.text, is_active |-> TRUE,
                     trade |-> default_trade, created_at |-> now + 1]
             rest == import_questions_from_dicts_NoCheck(
                         Q \cup {obj}, Tail(records), default_trade,
                         default_category, source_upload, now + 1)
         IN [rest EXCEPT !.created = <<id>> \o @]

(* import_questions_from_dicts, services.py lines 183-231: the store after   *)
(* the loop, the ids of the created and of the skipped records, and the      *)
(* latest timestamp used.  A row whose get_or_create raises is passed over.  *)
RECURSIVE import_questions_from_dicts(_, _, _, _, _, _)
import_questions_from_dicts(Q, records, default_trade, default_category, source_upload, now) ==
    IF records = <<>>
    THEN [questions |-> Q, created |-> <<>>, skipped |-> <<>>, now |-> now]
    ELSE LET q == Head(records)
             existing == {x \in Q : IExact(x.text, q.text)}
             g == GetOrCreate(Q, q.text,
                              ImportDefaults(q, default_trade, default_category,
                                             source_upload), now + 1)
             after == IF existing # {} THEN Q ELSE g.questions
             t == IF existing = {} /\ g.was_created THEN now + 1 ELSE now
             rest == import_questions_from_dicts(
                         after, Tail(records), default_trade, default_category,
                         source_upload, t)
         IN IF existing # {}
            THEN [rest EXCEPT !.skipped = <<MaxOf(QuestionIds(existing))>> \o @]
            ELSE IF g.raised THEN rest
            ELSE IF g.was_created
            THEN [rest EXCEPT !.created = <<g.obj>> \o @]
            ELSE [rest EXCEPT !.skipped = <<g.obj>> \o @]

----------------------------------------------------------------------------
(* Uploads: QuestionUploadForm, the post_save hook import_on_upload and      *)
(* QuestionUploadAdmin.                                                      *)

MaxUploads == 2
MaxSaves == 3
UploadIds == 1..MaxUploads

(* the containers an administrator holds: workbooks encrypted under the      *)
(* passphrase "a", and a file that is too short                              *)
Workbooks == {PK \o <<97, 65>>, PK \o <<Faulty, 98>>, PK \o <<Blank>>, <<97, 98>>}
Containers ==
    {EncryptBytesToDat(w, <<97>>, [i \in 1..SALT_SIZE |-> i], [i \in 1..IV_SIZE |-> i]).data :
        w \in Workbooks} \cup {<<1, 2, 3>>}

(* the stages both the form and the hook run on a file: size, decryption,   *)
(* signature, parsing.  The stage that fails, or "ok" with the parsed rows.  *)
Pipeline(file_data, password) ==
    IF ~is_encrypted_dat(file_data) THEN [stage |-> "short", questions |-> <<>>]
    ELSE LET d == decrypt_dat_content(file_data, password)
         IN IF ~d.ok THEN [stage |-> "decrypt", questions |-> <<>>]
            ELSE IF ~StartsWithPK(d.data) THEN [stage |-> "signature", questions |-> <<>>]
            ELSE LET l == load_questions_from_excel_data(d.data)
                 IN IF ~l.ok THEN [stage |-> "parse", questions |-> <<>>]
                    ELSE [stage |-> "ok", questions |-> l.questions]

(* variant: the form accepts every file *)
FormClean_NoCheck(file_data, password) == TRUE

(* QuestionUploadForm.clean, forms.py lines 31-90: TRUE when it raises no   *)
(* ValidationError                                                          *)
FormClean(file_data, password) == Pipeline(file_data, password).stage = "ok"

(* variant: the hook does not look at `created` *)
import_on_upload_NoGuard(Q, instance, created, now) ==
    LET p == Pipeline(instance.blob, instance.decryption_password)
    IN IF p.stage # "ok"
       THEN [questions |-> Q, ran |-> FALSE, created |-> <<>>, now |-> now]
       ELSE LET r == import_questions_from_dicts(Q, p.questions, NoTrade,
                                                 instance.category, instance.id, now)
            IN [questions |-> r.questions, ran |-> TRUE, created |-> r.created,
                now |-> r.now]

(* the post_save hook import_on_upload, signals.py lines 55-128.  ran tells *)
(* that import_questions_from_dicts was called, and so that the hook saved  *)
(* the instance again on line 120.                                          *)
import_on_upload(Q, instance, created, now) ==
    IF ~created
    THEN [questions |-> Q, ran |-> FALSE, created |-> <<>>, now |-> now]
    ELSE LET p == Pipeline(instance.blob, instance.decryption_password)
         IN IF p.stage # "ok"
            THEN [questions |-> Q, ran |-> FALSE, created |-> <<>>, now |-> now]
            ELSE LET r == import_questions_from_dicts(Q, p.questions, NoTrade,
                                                      instance.category, instance.id, now)
                 IN [questions |-> r.questions, ran |-> TRUE, created |-> r.created,
                     now |-> r.now]

(* Question.objects.filter(created_at__gte=t) *)
CreatedSince(Q, t) == {q \in Q : q.created_at >= t}

UpIdle == [pc |-> "idle", id |-> 0, stage |-> "none"]

NoLedger ==
    [u \in UploadIds |-> [saves |-> 0, runs |-> 0, created |-> 0, shown |-> <<>>, ids |-> {}]]

UploadById(id) == CHOOSE u \in uploads : u.id = id

(* The add view of QuestionUploadAdmin up to the end of obj.save(): the     *)
(* form is validated; a valid upload is saved, which fires the hook; the    *)
(* hook imports and saves the instance again, which fires the hook with     *)
(* created = False.                                                         *)
UploadAdd(file_data, password, trade, category) ==
    /\ up.pc \in {"idle", "rejected", "done"}
    /\ Cardinality(uploads) < MaxUploads
    /\ LET p == Pipeline(file_data, password)
       IN IF ~FormClean(file_data, password)
          THEN /\ up' = [pc |-> "rejected", id |-> 0, stage |-> p.stage]
               /\ UNCHANGED <<questions, uploads, clock, ledger>>
          ELSE LET id == Cardinality(uploads) + 1
                   row == [id |-> id, blob |-> file_data,
                           decryption_password |-> password,
                           trade |-> trade, uploaded_at |-> clock + 1]
                   instance == [id |-> id, blob |-> file_data,
                                decryption_password |-> password,
                                category |-> category]
                   first == import_on_upload(questions, instance, TRUE, clock + 1)
                   again == IF first.ran
                            THEN import_on_upload(first.questions, instance, FALSE,
                                                  first.now)
                            ELSE [first EXCEPT !.created = <<>>]
               IN /\ uploads' = uploads \cup {row}
                  /\ questions' = again.questions
                  /\ clock' = again.now
                  /\ ledger' = [ledger EXCEPT ![id] =
                                  [saves |-> IF first.ran THEN 2 ELSE 1,
                                   runs |-> (IF first.ran THEN 1 ELSE 0)
                                            + (IF again.ran THEN 1 ELSE 0),
                                   created |-> Len(first.created) + Len(again.created),
                                   shown |-> <<>>,
                                   ids |-> {first.created[i] : i \in 1..Len(first.created)}
                                           \cup {again.created[i] :
                                                    i \in 1..Len(again.created)}]]
                  /\ up' = [pc |-> "saved", id |-> id, stage |-> p.stage]
    /\ UNCHANGED <<examVars, siteVars, codec>>

(* save_model, admin.py lines 233-238: the questions created since the      *)
(* upload get its trade                                                     *)
UploadTag ==
    /\ up.pc = "saved"
    /\ LET obj == UploadById(up.id)
           since == CreatedSince(questions, obj.uploaded_at)
       IN questions' = IF obj.trade = NoTrade THEN questions
                       ELSE (questions \ since) \cup {[q EXCEPT !.trade = obj.trade] : q \in since}
    /\ up' = [up EXCEPT !.pc = "tagged"]
    /\ UNCHANGED <<examVars, siteVars, uploads, clock, ledger, codec>>

(* response_add, admin.py lines 240-257: the count in the success message *)
UploadRespond ==
    /\ up.pc = "tagged"
    /\ LET obj == UploadById(up.id)
       IN ledger' = [ledger EXCEPT ![up.id].shown =
                        <<Cardinality(CreatedSince(questions, obj.uploaded_at))>>]
    /\ up' = [up EXCEPT !.pc = "done"]
    /\ UNCHANGED <<questions, examVars, siteVars, uploads, clock, codec>>

(* the change list of uploads: get_questions_count, admin.py lines 219-222 *)
ListUploads ==
    /\ uploads # {}
    /\ ledger' = [u \in UploadIds |->
                    IF \E x \in uploads : x.id = u
                    THEN [ledger[u] EXCEPT !.shown =
                            <<Cardinality(CreatedSince(questions, UploadById(u).uploaded_at))>>]
                    ELSE ledger[u]]
    /\ UNCHANGED <<questions, examVars, siteVars, uploads, clock, up, codec>>

(* the change view of an upload: the row is saved again with another trade *)
UploadChange(id, trade) ==
    /\ \E x \in uploads : x.id = id
    /\ ledger[id].saves < MaxSaves
    /\ LET obj == UploadById(id)
           instance == [id |-> id, blob |-> obj.blob,
                        decryption_password |-> obj.decryption_password,
                        category |-> "JCO"]
           h == import_on_upload(questions, instance, FALSE, clock)
       IN /\ obj.trade # trade
          /\ uploads' = (uploads \ {obj}) \cup {[obj EXCEPT !.trade = trade]}
          /\ questions' = h.questions
          /\ clock' = h.now
          /\ ledger' = [ledger EXCEPT ![id].saves = @ + 1,
                                      ![id].runs = @ + (IF h.ran THEN 1 ELSE 0),
                                      ![id].created = @ + Len(h.created),
                                      ![id].ids = @ \cup {h.created[i] : i \in 1..Len(h.created)}]
    /\ UNCHANGED <<examVars, siteVars, up, codec>>

(* the add view of QuestionAdmin: a question typed in by an administrator *)
AddQuestion(text, is_active) ==
    /\ Cardinality(questions) < NumQuestions
    /\ questions' = questions \cup
          {[id |-> NextQuestionId(questions), text |-> text, is_active |-> is_active,
            trade |-> NoTrade, created_at |-> clock + 1]}
    /\ clock' = clock + 1
    /\ UNCHANGED <<examVars, siteVars, uploads, up, ledger, codec>>

QuestionTexts == {<<65>>, <<98>>}

(* the papers the admin has set up: odd ids are category papers without a   *)
(* trade, even ids are papers of the other category with a trade            *)
PaperFixture(i) ==
    IF i % 2 = 1
    THEN [id |-> i, category |-> "JCO", trade |-> NoTrade, is_active |-> TRUE]
    ELSE [id |-> i, category |-> "OR", trade |-> 1, is_active |-> TRUE]

(* the registered candidates *)
CandidateFixture(i) ==
    IF i % 2 = 1 THEN [id |-> i, cat |-> "JCO", trade |-> 1, shift |-> NoShift]
    ELSE [id |-> i, cat |-> "OR", trade |-> NoTrade, shift |-> NoShift]

(* no upload was made and the codec is not in use *)
NoContent ==
    /\ uploads = {}
    /\ clock = 0
    /\ up = UpIdle
    /\ ledger = NoLedger
    /\ codec = CodecIdle

(* no shift exists, no admin request was answered, no row is parsed *)
NoSite ==
    /\ shifts = {}
    /\ notice = NoNotice
    /\ sheet = SheetIdle

(* no paper, no candidate and no request: the exam engine is not in use *)
NoExam ==
    /\ NoSite
    /\ candidates = {}
    /\ papers = {}
    /\ links = {}
    /\ sessions = {}
    /\ examQuestions = {}
    /\ answers = {}
    /\ req = [r \in Requests |-> Idle]
    /\ edits = 0
    /\ submitted = [k \in AnswerKeys |-> <<>>]
    /\ cascadeError = FALSE

Init ==
    /\ candidates = {CandidateFixture(i) : i \in Candidates}
    /\ papers = {PaperFixture(i) : i \in Papers}
    /\ questions = [id : Questions, is_active : {TRUE}]
    /\ links \in SUBSET [paper : Papers, question : Questions]
    /\ sessions = {}
    /\ examQuestions = {}
    /\ answers = {}
    /\ req = [r \in Requests |-> Idle]
    /\ edits = 0
    /\ submitted = [k \in AnswerKeys |-> <<>>]
    /\ cascadeError = FALSE
    /\ NoContent
    /\ NoSite

Next ==
    \/ \E r \in Requests : Begin(r)
    \/ \E r \in Requests : Create(r)
    \/ \E r \in Requests : Commit(r)
    \/ \E q \in questions : SetQuestionActive(q)
    \/ \E pid \in Papers : \E qid \in Questions : LinkQuestion(pid, qid)
    \/ \E pid \in Papers : DeleteModel(pid, "none")
    \/ \E D \in SUBSET Papers : DeleteSelected(D, "none")

Spec == Init /\ [][Next]_vars

(* The exam requests and the deletions when a statement of the deletion     *)
(* hook can raise                                                           *)
FaultNext ==
    \/ \E r \in Requests : Begin(r)
    \/ \E r \in Requests : Create(r)
    \/ \E r \in Requests : Commit(r)
    \/ \E pid \in Papers : \E fault \in Faults \cup {"none"} : DeleteModel(pid, fault)
    \/ \E D \in SUBSET Papers : \E fault \in Faults \cup {"none"} :
          DeleteSelected(D, fault)

FaultSpec == Init /\ [][FaultNext]_vars

(* The upload pipeline: administrators add uploads and questions *)
ImportInit ==
    /\ NoExam
    /\ questions = {}
    /\ uploads = {}
    /\ clock = 0
    /\ up = UpIdle
    /\ ledger = NoLedger
    /\ codec = CodecIdle

ImportNext ==
    \/ \E file_data \in Containers : \E password \in Passphrases :
          \E trade \in Trades \cup {NoTrade} :
             UploadAdd(file_data, password, trade, "JCO")
    \/ UploadTag
    \/ UploadRespond
    \/ ListUploads
    \/ \E id \in UploadIds : \E trade \in Trades \cup {NoTrade} : UploadChange(id, trade)
    \/ \E text \in QuestionTexts : \E is_active \in BOOLEAN : AddQuestion(text, is_active)

ImportSpec == ImportInit /\ [][ImportNext]_vars

(* The selection alone: candidates ask for the exam page against a store of *)
(* papers of every category, trade and activity, each linked to nothing, to *)
(* an active question or to an inactive one                                 *)
NumSelectPapers == 3
NumProfiles == 2

SelectPapers == 1..NumSelectPapers

Profiles == 1..NumProfiles

SelectInit ==
    /\ candidates \in {{[id |-> i, cat |-> cat[i], trade |-> trade[i],
                            shift |-> NoShift] : i \in Profiles} :
                          cat \in [Profiles -> Cats],
                          trade \in [Profiles -> Trades \cup {NoTrade}]}
    /\ \A c \in candidates : c.id = 1 => c.cat = "JCO"
    /\ papers \in {{[id |-> i, category |-> category[i], trade |-> trade[i],
                      is_active |-> is_active[i]] : i \in SelectPapers} :
                      category \in [SelectPapers -> Cats],
                      trade \in [SelectPapers -> Trades \cup {NoTrade}],
                      is_active \in [SelectPapers -> BOOLEAN]}
    /\ questions = {[id |-> 1, is_active |-> TRUE], [id |-> 2, is_active |-> FALSE]}
    /\ links \in {{[paper |-> i, question |-> linked[i]] : i \in {j \in SelectPapers : linked[j] # 0}} :
                     linked \in [SelectPapers -> {0, 1, 2}]}
    /\ sessions = {}
    /\ examQuestions = {}
    /\ answers = {}
    /\ req = [r \in Requests |-> Idle]
    /\ edits = 0
    /\ submitted = [k \in AnswerKeys |-> <<>>]
    /\ cascadeError = FALSE
    /\ NoContent
    /\ NoSite

SelectNext == \E r \in Requests : Begin(r)

SelectSpec == SelectInit /\ [][SelectNext]_vars

(* The site: a candidate with or without a shift, the exam page, the shift  *)
(* view and the wipe                                                        *)
SiteInit ==
    /\ shifts \in {{[id |-> 1, start |-> t]} : t \in 1..MaxTime}
    /\ candidates \in {{[CandidateFixture(i) EXCEPT !.shift = sh[i]] : i \in Candidates} :
                          sh \in [Candidates -> {NoShift, 1}]}
    /\ papers = {PaperFixture(i) : i \in Papers}
    /\ questions = [id : Questions, is_active : {TRUE}]
    /\ links \in SUBSET [paper : Papers, question : Questions]
    /\ sessions = {}
    /\ examQuestions = {}
    /\ answers = {}
    /\ req = [r \in Requests |-> Idle]
    /\ edits = 0
    /\ submitted = [k \in AnswerKeys |-> <<>>]
    /\ cascadeError = FALSE
    /\ uploads \in {{}, {[id |-> 1, blob |-> <<>>, decryption_password |-> <<97>>,
                            trade |-> NoTrade, uploaded_at |-> 0]}}
    /\ clock = 0
    /\ up = UpIdle
    /\ ledger = NoLedger
    /\ codec = CodecIdle
    /\ notice = NoNotice
    /\ sheet = SheetIdle

SiteNext ==
    \/ Tick
    \/ \E r \in Requests : Begin(r)
    \/ \E r \in Requests : Create(r)
    \/ \E uid \in Candidates : ClearShiftAndStart(uid)
    \/ \E is_superuser \in BOOLEAN : \E method \in Methods : Wipe(is_superuser, method)

SiteSpec == SiteInit /\ [][SiteNext]_vars

(* The row parser alone: a part cell is drawn and the row is parsed *)
ParseInit ==
    /\ candidates = {}
    /\ papers = {}
    /\ questions = {}
    /\ links = {}
    /\ sessions = {}
    /\ examQuestions = {}
    /\ answers = {}
    /\ req = [r \in Requests |-> Idle]
    /\ edits = 0
    /\ submitted = [k \in AnswerKeys |-> <<>>]
    /\ cascadeError = FALSE
    /\ NoContent
    /\ shifts = {}
    /\ notice = NoNotice
    /\ \E cell \in PartCells : sheet = [SheetIdle EXCEPT !.pc = "cell", !.cell = cell]

ParseNext == ParseRow

ParseSpec == ParseInit /\ [][ParseNext]_vars

(* The codec alone: a plaintext is encoded, the container is decoded *)
CodecInit ==
    /\ NoExam
    /\ questions = {}
    /\ uploads = {}
    /\ clock = 0
    /\ up = UpIdle
    /\ ledger = NoLedger
    /\ \E plain \in Plaintexts : \E passphrase \in Passphrases \cup {<<>>} :
          codec = [CodecIdle EXCEPT !.pc = "plain", !.plain = plain,
                                    !.passphrase = passphrase]

CodecNext == Encode \/ Damage \/ Decode

CodecSpec == CodecInit /\ [][CodecNext]_vars

----------------------------------------------------------------------------
(* Properties *)

StoreUnchanged ==
    /\ papers' = papers
    /\ questions' = questions
    /\ links' = links
    /\ sessions' = sessions
    /\ examQuestions' = examQuestions
    /\ answers' = answers

(* request r takes its first step: profile, selection and session lookup *)
Begins(r) == req[r].pc \in {"idle", "done"} /\ req'[r].pc # "idle" /\ req'[r] # req[r]

(* the candidate of the request that begins *)
Beginner(r) == CHOOSE c \in candidates : c.id = req'[r].user

AtMostOneSessionPerPair ==
    \A c \in Candidates : \A pid \in Papers : Cardinality(SessionsOf(sessions, pid, c)) <= 1

(* C1: two interleaved requests of one candidate for one paper leave one     *)
(* ExamSession for the pair, and the request that creates second is given    *)
(* the session that exists instead of a failure.                             *)
C1_RaceGivesExistingSession ==
    [][/\ AtMostOneSessionPerPair'
       /\ \A r \in Requests :
            (/\ req[r].pc = "create"
             /\ req'[r] # req[r]
             /\ SessionsOf(sessions, req[r].paper, req[r].user) # {})
            => /\ sessions' = sessions
               /\ req'[r].outcome # "not_started"
               /\ req'[r].pc = "post" \/ req'[r].outcome = "rendered"
               /\ req'[r].sid \in {s.id : s \in SessionsOf(sessions, req[r].paper, req[r].user)}
      ]_vars

(* C2: a submission that names a question outside the snapshot of its        *)
(* session creates no answer row and changes none.                           *)
C2_ForeignQuestionIsNoOp ==
    [][\A r \in Requests :
          (req[r].pc = "post" /\ req'[r].pc = "done")
          => \A a \in answers' \ answers :
                a.question \in SnapshotOf(examQuestions, req[r].sid)
      ]_vars

(* C3: when papers are deleted, a question linked to a deleted paper is      *)
(* deleted if and only if no remaining paper links to it.                    *)
C3_CascadeExclusivity ==
    [][LET D == PaperIds(papers) \ PaperIds(papers')
       IN \A l \in links :
            l.paper \in D
            => ((l.question \notin QuestionIds(questions'))
                <=> ~(\E l2 \in links : l2.question = l.question /\ l2.paper \notin D))
      ]_vars

(* C4: a request that arrives when the session of its candidate and paper    *)
(* is completed is rejected and changes nothing in the store.                *)
C4_CompletedSessionRejects ==
    [][\A r \in Requests :
          Begins(r)
          => LET pid == Select(Store, Beginner(r))
                 found == SessionsOf(sessions, pid, req'[r].user)
             IN (pid # NoPaper /\ found # {} /\
                 \A s \in found : s.completed_at # Null)
                => /\ req'[r].pc = "done"
                   /\ req'[r].outcome \in {"cannot_resubmit", "already_submitted"}
                   /\ StoreUnchanged
      ]_vars

C4_Witness ==
    \E r \in Requests :
       /\ req[r].pc = "done"
       /\ req[r].outcome = "cannot_resubmit"
       /\ \E s \in sessions : s.user = req[r].user /\ s.completed_at # Null

(* C5: once a session is completed, no step writes an answer of its          *)
(* candidate and paper or writes its completed_at again.                     *)
C5_NoWriteAfterCompleted ==
    [][\A s \in sessions :
          (s.completed_at # Null /\ \E s2 \in sessions' : s2.id = s.id)
          => /\ s \in sessions'
             /\ \A a \in answers' \ answers : ~(a.candidate = s.user /\ a.paper = s.paper)
      ]_vars

(* C6: a request for a pair that already has a session is given a session    *)
(* of that pair, never creates one, and leaves the store unchanged.          *)
C6_GetOrCreateIdempotent ==
    [][\A r \in Requests :
          Begins(r)
          => LET pid == Select(Store, Beginner(r))
                 found == SessionsOf(sessions, pid, req'[r].user)
             IN (pid # NoPaper /\ found # {})
                => /\ req'[r].pc # "create"
                   /\ req'[r].pc = "post" \/ req'[r].outcome = "rendered"
                      => req'[r].sid \in {s.id : s \in found}
                   /\ StoreUnchanged
      ]_vars

(* one request created the session, the other one was given the same *)
C6_Witness ==
    \E r1, r2 \in Requests :
       /\ r1 # r2
       /\ req[r1].pc = "post"
       /\ req[r2].pc = "done" /\ req[r2].outcome = "rendered"
       /\ req[r1].sid = req[r2].sid
       /\ Cardinality(sessions) = 1

C8_CompletedHasAllAnswers ==
    \A s \in sessions :
       s.completed_at # Null
       => \A q \in SnapshotOf(examQuestions, s.id) :
             Cardinality(RowsOfKey(answers, <<s.user, s.paper, q>>)) = 1

(* a completed session with an unanswered question, after a paper was deleted *)
C8_Witness ==
    /\ Cardinality(papers) < NumPapers
    /\ \E s \in sessions :
          /\ s.completed_at # Null
          /\ \E q \in SnapshotOf(examQuestions, s.id) :
                \E a \in RowsOfKey(answers, <<s.user, s.paper, q>>) : a.answer = Empty

(* C9: no orphans: links, sessions, snapshot rows and answers refer only to  *)
(* papers, questions and sessions that exist.                                *)
C9_NoOrphans ==
    /\ \A l \in links : l.paper \in PaperIds(papers) /\ l.question \in QuestionIds(questions)
    /\ \A s \in sessions : s.paper \in PaperIds(papers)
    /\ \A e \in examQuestions :
          /\ e.question \in QuestionIds(questions)
          /\ \E s \in sessions : s.id = e.session
    /\ \A a \in answers :
          a.paper \in PaperIds(papers) /\ a.question \in QuestionIds(questions)

(* a paper that shared a question with a paper in use has been deleted *)
C9_Witness ==
    /\ Cardinality(papers) < NumPapers
    /\ Cardinality(questions) < NumQuestions
    /\ sessions # {}
    /\ answers # {}

(* C10: a deletion in which a statement of the cascade raised leaves the     *)
(* store exactly as it was.                                                  *)
C10_FailedCascadeRollsBack ==
    [][cascadeError' => StoreUnchanged]_vars

(* the questions linked to paper pid and to no other paper *)
ExclusiveIds(st, pid) ==
    {q \in LinkedIds(st, pid) :
        ~(\E l \in st.links : l.question = q /\ l.paper # pid)}

(* C11: from every store, deleting a paper through delete_model and through *)
(* a queryset delete leave the same papers, links, questions, sessions,     *)
(* snapshot rows and answers.                                               *)
C11_DeletePathsAgree ==
    \A pid \in PaperIds(papers) :
       ModelDelete(Store, pid, "none").st = QuerySetDelete(Store, {pid}, "none").st

(* a paper with an answered exclusive question and a shared question, whose *)
(* deletion removes questions                                               *)
C11_Witness ==
    \E pid \in PaperIds(papers) :
       /\ \E q \in ExclusiveIds(Store, pid) : \E a \in answers : a.question = q
       /\ LinkedIds(Store, pid) \ ExclusiveIds(Store, pid) # {}
       /\ QuestionIds(ModelDelete(Store, pid, "none").st.questions) = {}

(* C12: a queryset delete of a paper removes the paper and every question   *)
(* that is linked to that paper only.                                       *)
C12_BulkDeleteRemovesExclusive ==
    \A pid \in PaperIds(papers) :
       LET after == QuerySetDelete(Store, {pid}, "none").st
       IN /\ pid \notin PaperIds(after.papers)
          /\ \A q \in ExclusiveIds(Store, pid) : q \notin QuestionIds(after.questions)

(* a paper in use by a session, with answers of a question it alone links,  *)
(* next to another paper                                                    *)
C12_Witness ==
    /\ Cardinality(papers) = NumPapers
    /\ \E pid \in PaperIds(papers) :
          /\ \E s \in sessions : s.paper = pid
          /\ \E q \in ExclusiveIds(Store, pid) :
                /\ \E a \in answers : a.question = q
                /\ q \notin QuestionIds(QuerySetDelete(Store, {pid}, "none").st.questions)

(* in the order `ord` every removal of answer rows comes before every       *)
(* removal of a question                                                    *)
AnswersFirst(ord) ==
    \A i, j \in 1..Len(ord) :
       (ord[i].kind = "question" /\ ord[j].kind = "answers" /\ ord[j].rows # {})
       => j < i

(* C13: after a paper is deleted no answer references a question that was   *)
(* linked to it, and in both deletion paths the answers are removed before  *)
(* any question is.                                                         *)
C13_AnswersGoFirst ==
    \A pid \in PaperIds(papers) :
       /\ \A a \in ModelDelete(Store, pid, "none").st.answers :
             a.question \notin LinkedIds(Store, pid)
       /\ \A a \in QuerySetDelete(Store, {pid}, "none").st.answers :
             a.question \notin LinkedIds(Store, pid)
       /\ AnswersFirst(QuerySetDeleteOrder(Store, pid))
       /\ AnswersFirst(ModelDeleteOrder(Store, pid))

(* the row texts and the parsed row sets given to the importer *)
RowTexts == {<<97>>, <<65>>, <<98>>}
MaxRows == 2
RowLists == UNION {[1..n -> [text : RowTexts]] : n \in 0..MaxRows}

(* import(R) on the store Q at time now, as the upload hook calls it *)
ImportRows(Q, R, now) == import_questions_from_dicts(Q, R, NoTrade, "JCO", 1, now)

(* C14: for every row set and every store, a second import of the same rows *)
(* right after the first returns no created record and leaves the Question  *)
(* rows as the first import left them.                                      *)
C14_ImportIdempotent ==
    \A R \in RowLists :
       LET first == ImportRows(questions, R, clock)
           second == ImportRows(first.questions, R, first.now)
       IN second.created = <<>> /\ second.questions = first.questions

(* the same container was uploaded and imported twice, next to a question   *)
(* that one of its rows matches                                             *)
C14_Witness ==
    /\ \E u1, u2 \in uploads :
          /\ u1.id # u2.id
          /\ u1.blob = u2.blob
          /\ ledger[u1.id].runs = 1 /\ ledger[u2.id].runs = 1
    /\ \E q \in questions : \E R \in RowLists :
          Len(R) = MaxRows /\ ImportRows(questions, R, clock).skipped # <<>>

NoDuplicateActiveTexts(Q) ==
    \A q1, q2 \in Q :
       (q1.id # q2.id /\ q1.is_active /\ q2.is_active) => ~IExact(q1.text, q2.text)

(* C15: an import into a store without duplicate texts leaves no two active *)
(* questions with texts equal up to case, and an import of two rows whose   *)
(* texts differ only in case, into a store that has neither, creates        *)
(* exactly one record.                                                      *)
C15_ImportKeepsTextsUnique ==
    NoDuplicateActiveTexts(questions)
    => \A R \in RowLists :
          LET r == ImportRows(questions, R, clock)
          IN /\ NoDuplicateActiveTexts(r.questions)
             /\ (/\ Len(R) = 2
                 /\ R[1].text # R[2].text
                 /\ IExact(R[1].text, R[2].text)
                 /\ ~(\E q \in questions : IExact(q.text, R[1].text)))
                => Len(r.created) = 1

(* C16: a row is skipped exactly when its text matches, ignoring case, an   *)
(* active question; a row that matches inactive questions only gets a new   *)
(* record.                                                                  *)
C16_SkipsOnActiveMatchOnly ==
    \A text \in RowTexts :
       LET r == ImportRows(questions, <<[text |-> text]>>, clock)
           active == \E q \in questions : q.is_active /\ IExact(q.text, text)
           inactive == \E q \in questions : ~q.is_active /\ IExact(q.text, text)
       IN /\ (r.skipped # <<>>) <=> active
          /\ (inactive /\ ~active) => Len(r.created) = 1

(* C17: the count shown to the uploader for an upload is the number of      *)
(* records the import of that upload returned.                              *)
C17_ShownCountIsCreated ==
    \A u \in UploadIds :
       ledger[u].shown # <<>> => ledger[u].shown = <<ledger[u].created>>

(* C18: an upload whose file fails a stage of the pipeline is refused by    *)
(* the form with nothing saved, no step of the request of such an upload    *)
(* creates or changes a question, and the hook on such a file leaves the    *)
(* questions as they are without calling the import; the hook is tried on   *)
(* every set of questions a step has produced.                              *)
C18_FailedPipelinePersistsNothing ==
    [][/\ (up'.pc = "rejected" /\ up' # up)
          => (questions' = questions /\ uploads' = uploads /\ up'.stage # "ok")
       /\ (up' # up /\ up'.stage # "ok") => questions' = questions
       /\ (questions' # questions \/ up.pc = "idle")
          => \A file_data \in Containers : \A password \in Passphrases :
                LET instance == [id |-> 1, blob |-> file_data,
                                 decryption_password |-> password, category |-> "JCO"]
                    h == import_on_upload(questions', instance, TRUE, clock')
                IN ~FormClean(file_data, password)
                   => h.questions = questions' /\ ~h.ran
      ]_vars

(* a decrypted file without the PK signature was refused while questions    *)
(* exist                                                                    *)
C18_Witness ==
    /\ up.pc = "rejected"
    /\ up.stage = "signature"
    /\ questions # {}

(* C19: the import of an upload has run exactly once, when the upload was   *)
(* created, however often the row was saved since.                          *)
C19_ImportedExactlyOnce ==
    /\ \A x \in uploads : ledger[x.id].runs = 1
    /\ \A u \in UploadIds : ledger[u].runs <= 1

(* an upload saved three times: on creation, by the hook, by a later edit *)
C19_Witness ==
    \E x \in uploads : ledger[x.id].saves = MaxSaves /\ ledger[x.id].runs = 1

(* C20: decoding a container with the passphrase it was encoded under gives *)
(* the plaintext back; the container is salt, nonce, ciphertext and tag.    *)
C20_RoundTrip ==
    (codec.pc = "decoded" /\ codec.used = codec.passphrase)
    => /\ codec.result.ok /\ codec.result.data = codec.plain
       /\ Len(codec.blob) = SALT_SIZE + IV_SIZE + Len(codec.plain) + TAG_SIZE
       /\ LET key == derive_key(codec.passphrase, Slice(codec.blob, 0, SALT_SIZE))
              iv == Slice(codec.blob, SALT_SIZE, SALT_SIZE + IV_SIZE)
              ciphertext == Slice(codec.blob, SALT_SIZE + IV_SIZE,
                                  Len(codec.blob) - TAG_SIZE)
          IN Slice(codec.blob, Len(codec.blob) - TAG_SIZE, Len(codec.blob))
             = AuthTag(key, iv, ciphertext)

(* a plaintext of the greatest explored length came back *)
C20_Witness ==
    /\ codec.pc = "decoded"
    /\ codec.used = codec.passphrase
    /\ Len(codec.plain) = MaxPlain
    /\ codec.result.ok

(* C21: decoding with another passphrase than the one a container was       *)
(* encoded under fails with the decryption error and gives no plaintext,    *)
(* and a container with an altered byte fails with the very same outcome.   *)
C21_WrongPassphraseFails ==
    LET failure == [ok |-> FALSE, data |-> <<>>, error |-> DecryptionFailed]
    IN /\ (codec.pc = "decoded" /\ codec.used # codec.passphrase)
          => codec.result = failure
       /\ codec.pc = "encoded"
          => /\ \A K2 \in Passphrases \ {codec.passphrase} :
                   decrypt_dat_content(codec.blob, K2) = failure
             /\ \A i \in 1..Len(codec.blob) : \A K \in Passphrases :
                   decrypt_dat_content(Corrupt(codec.blob, i), K) = failure
       /\ (codec.pc = "decoded_damaged" /\ is_encrypted_dat(codec.blob))
          => codec.result = failure

(* a container of the longest explored plaintext was decoded with the       *)
(* other passphrase                                                         *)
C21_Witness ==
    /\ codec.pc = "decoded"
    /\ codec.used # codec.passphrase
    /\ Len(codec.plain) = MaxPlain
    /\ ~codec.result.ok

(* C22: decoding fails with the too-short error exactly for the files       *)
(* shorter than 44 bytes, a file of 44 bytes is an empty ciphertext, and    *)
(* is_encrypted_dat accepts exactly the files of 44 bytes or more.          *)
C22_MinimumLength ==
    /\ SALT_SIZE + IV_SIZE + TAG_SIZE = 44
    /\ codec.pc \in {"decoded", "decoded_damaged"}
       => /\ (codec.result.error = TooShort) <=> (Len(codec.blob) < 44)
          /\ (Len(codec.blob) = 44 /\ codec.result.ok) => codec.result.data = <<>>
    /\ codec.pc \in {"encoded", "damaged"}
       => \A n \in 0..Len(codec.blob) : \A K \in Passphrases :
             LET file_data == Slice(codec.blob, 0, n)
                 r == decrypt_dat_content(file_data, K)
             IN /\ (r.error = TooShort) <=> (n < 44)
                /\ is_encrypted_dat(file_data) <=> (n >= 44)
                /\ r.error # InvalidLength

(* a file of 43 bytes was refused as too short *)
C22_Witness ==
    /\ codec.pc = "decoded_damaged"
    /\ Len(codec.blob) = 43
    /\ codec.result.error = TooShort

(* The selection as the specification words it *)

(* paper p is active and has an active linked question *)
IsEligible(p) ==
    /\ p.is_active = TRUE
    /\ \E q \in questions : q.is_active /\ [paper |-> p.id, question |-> q.id] \in links

(* paper p is in tier k for candidate c; an absent category or trade of the *)
(* candidate matches no paper                                               *)
InTier(k, p, c) ==
    CASE k = 1 -> c.cat # "" /\ p.category = c.cat
      [] k = 2 -> c.cat # "" /\ p.category = c.cat /\ c.trade # NoTrade /\ p.trade = c.trade
      [] k = 3 -> c.trade # NoTrade /\ p.trade = c.trade
      [] k = 4 -> TRUE

TierSet(k, c) == {p \in papers : IsEligible(p) /\ InTier(k, p, c)}

Reference(c) ==
    LET nonEmpty == {k \in 1..4 : TierSet(k, c) # {}}
    IN IF nonEmpty = {} THEN NoPaper
       ELSE LET k == CHOOSE i \in nonEmpty : \A j \in nonEmpty : i <= j
                newest == CHOOSE p \in TierSet(k, c) : \A o \in TierSet(k, c) : o.id <= p.id
            IN newest.id

CandidateOf(r) == CHOOSE c \in candidates : c.id = req[r].user

(* C23: the paper a request is given is the newest paper of the first       *)
(* non-empty tier (category; category and trade; trade; any) of active      *)
(* papers with an active linked question, and none when all are empty.      *)
C23_SelectIsReference ==
    /\ \A c \in candidates : Select(Store, c) = Reference(c)
    /\ \A r \in Requests :
          /\ req[r].pc = "create" => req[r].paper = Reference(CandidateOf(r))
          /\ (req[r].pc = "done" /\ req[r].outcome = "no_paper")
             => Reference(CandidateOf(r)) = NoPaper

(* a request was given a paper of the trade tier although a newer paper is  *)
(* eligible                                                                 *)
C23_Witness ==
    \E r \in Requests :
       /\ req[r].pc = "create"
       /\ TierSet(1, CandidateOf(r)) = {}
       /\ \E p \in TierSet(3, CandidateOf(r)) : p.id = req[r].paper
       /\ \E p \in TierSet(4, CandidateOf(r)) : p.id > req[r].paper

(* C24: when an eligible paper of the candidate's category and trade and    *)
(* another eligible paper of the candidate's trade exist, the request is    *)
(* given a paper of the candidate's category and trade.                     *)
C24_CategoryAndTradeWins ==
    \A r \in Requests :
       req[r].pc = "create"
       => LET c == CandidateOf(r)
          IN (c.trade # NoTrade /\
              \E p2 \in TierSet(2, c) : \E p3 \in TierSet(3, c) : p3 # p2)
             => \E p \in papers : /\ p.id = req[r].paper
                                  /\ p.category = c.cat
                                  /\ p.trade = c.trade

(* C25: a paper a request is given is active and has an active linked       *)
(* question; when no such paper exists the request is answered with the     *)
(* no-paper outcome and no session, snapshot row or answer row is created.  *)
C25_SelectedIsEligible ==
    [][\A r \in Requests :
          Begins(r)
          => /\ req'[r].paper # NoPaper
                => \E p \in papers : p.id = req'[r].paper /\ IsEligible(p)
             /\ (\A p \in papers : ~IsEligible(p))
                => /\ Select(Store, Beginner(r)) = NoPaper
                   /\ req'[r].pc = "done"
                   /\ req'[r].outcome = "no_paper"
                   /\ StoreUnchanged
      ]_vars

(* papers exist, none is eligible, and the request was turned away *)
C25_Witness ==
    \E r \in Requests :
       /\ req[r].pc = "done"
       /\ req[r].outcome = "no_paper"
       /\ \E p \in papers : p.is_active
       /\ \E p \in papers : \E l \in links : l.paper = p.id
       /\ sessions = {} /\ examQuestions = {} /\ answers = {}

(* C26: the selection depends on the candidate's category and trade and on  *)
(* the store only (two candidates that agree on both are given the same     *)
(* paper in the same store) and it changes nothing in the store.            *)
C26_SelectIsPure ==
    [][\A r \in Requests :
          Begins(r)
          => /\ StoreUnchanged
             /\ candidates' = candidates
             /\ \A c2 \in candidates :
                   (c2.cat = Beginner(r).cat /\ c2.trade = Beginner(r).trade)
                   => /\ Select(Store, c2) = Select(Store, Beginner(r))
                      /\ req'[r].pc = "create" => req'[r].paper = Select(Store', c2)
                      /\ req'[r].outcome = "no_paper" => Select(Store', c2) = NoPaper
      ]_vars

(* two candidates of one category and trade hold the same paper *)
C26_Witness ==
    \E r1, r2 \in Requests :
       /\ req[r1].pc = "create" /\ req[r2].pc = "create"
       /\ req[r1].user # req[r2].user
       /\ CandidateOf(r1).cat = CandidateOf(r2).cat
       /\ CandidateOf(r1).trade = CandidateOf(r2).trade
       /\ req[r1].paper = req[r2].paper
       /\ req[r1].paper # req[r1].user

(* the ids of the active questions linked to paper pid *)
ActiveLinked(pid) ==
    {q.id : q \in {x \in questions :
                     x.is_active /\ [paper |-> pid, question |-> x.id] \in links}}

(* request r takes the step that creates the session *)
Creates(r) == req[r].pc = "create" /\ req'[r] # req[r]

(* the sessions a step adds *)
NewSessions == {s \in sessions' : \A o \in sessions : o.id # s.id}

(* C27: creating a session on a paper that has no active linked question    *)
(* fails with the no-content error and leaves the store as it was.          *)
C27_NoContentFails ==
    [][\A r \in Requests :
          (Creates(r) /\ ActiveLinked(req[r].paper) = {})
          => /\ req'[r].pc = "done"
             /\ req'[r].outcome = "no_content"
             /\ req'[r].sid = NoSession
             /\ StoreUnchanged
      ]_vars

(* the paper lost its content after it was selected, the request was        *)
(* refused and no session exists                                            *)
C27_Witness ==
    \E r \in Requests :
       /\ req[r].pc = "done"
       /\ req[r].outcome = "no_content"
       /\ sessions = {}
       /\ \E l \in links : ~(\E q \in questions : q.id = l.question /\ q.is_active)

(* C28: the snapshot of a new session holds each active linked question of  *)
(* the paper once and no other question, its order values are 1..n,         *)
(* total_questions is n, and one empty answer row exists per question.      *)
C28_SnapshotOfNewSession ==
    [][\A s \in NewSessions :
          LET act == ActiveLinked(s.paper)
              n == Cardinality(act)
              rows == {e \in examQuestions' : e.session = s.id}
          IN /\ {e.question : e \in rows} = act
             /\ {e.order : e \in rows} = 1..n
             /\ Cardinality(rows) = n
             /\ s.total_questions = n
             /\ \A q \in act :
                   RowsOfKey(answers', <<s.user, s.paper, q>>) =
                      {[candidate |-> s.user, paper |-> s.paper, question |-> q,
                        answer |-> Empty]}
             /\ answers' \ answers =
                   {[candidate |-> s.user, paper |-> s.paper, question |-> q,
                     answer |-> Empty] : q \in act}
      ]_vars

(* a session over every question exists with both orders in use *)
C28_Witness ==
    \E s \in sessions :
       /\ s.total_questions = NumQuestions
       /\ ActiveLinked(s.paper) = Questions
       /\ \E e \in examQuestions : e.session = s.id /\ e.question = 1 /\ e.order = NumQuestions
       /\ \A q \in Questions :
             \E a \in answers : KeyOf(a) = <<s.user, s.paper, q>> /\ a.answer = Empty

(* C29: a session appears together with all its snapshot rows, its answer   *)
(* rows and its final total_questions, and a creation that fails leaves     *)
(* no session, snapshot row or answer row behind.                           *)
C29_CreationIsAtomic ==
    [][/\ \A s \in NewSessions :
             LET rows == {e \in examQuestions' : e.session = s.id}
             IN /\ rows # {}
                /\ s.total_questions = Cardinality(rows)
                /\ \A e \in rows :
                      RowsOfKey(answers', <<s.user, s.paper, e.question>>) # {}
       /\ \A r \in Requests :
             (Creates(r) /\ req'[r].outcome \in {"not_started", "no_content"})
             => StoreUnchanged
       /\ \A r \in Requests :
             (Creates(r) /\ NewSessions = {}) => StoreUnchanged
       /\ \A e \in examQuestions' \ examQuestions :
             \E s \in NewSessions : s.id = e.session
      ]_vars

(* a creation failed after its session row was written: the other request   *)
(* of the candidate had created the session, and exactly that one exists    *)
C29_Witness ==
    \E r \in Requests :
       /\ req[r].pc = "done"
       /\ req[r].outcome = "not_started"
       /\ Cardinality({s \in sessions : s.user = req[r].user}) = 1
       /\ \A s \in sessions :
             Cardinality({e \in examQuestions : e.session = s.id}) = s.total_questions

(* C30: as long as a session exists, its snapshot rows and their order stay *)
(* as they were created, whatever happens to links, to activity flags or    *)
(* to other papers.                                                         *)
C30_SnapshotImmutable ==
    [][\A s \in sessions :
          (\E s2 \in sessions' : s2.id = s.id)
          => {e \in examQuestions' : e.session = s.id} =
             {e \in examQuestions : e.session = s.id}
      ]_vars

(* C31: a completed_at that is set is never cleared and never written       *)
(* again: a submission that reaches finish() on a completed session raises  *)
(* no error and leaves completed_at at the value of the first completion.   *)
C31_CompletedIsTerminal ==
    [][\A s \in sessions :
          s.completed_at # Null
          => \A s2 \in sessions' :
                s2.id = s.id
                => /\ s2.completed_at # Null
                   /\ s2.completed_at = s.completed_at
      ]_vars

(* the workbook of an upload, as the hook decrypts it *)
WorkbookOf(u) == decrypt_dat_content(u.blob, u.decryption_password).data

(* C32: a row that raises while it is parsed or created does not abort the  *)
(* import: after the import of a workbook with such a row, every other row  *)
(* with a text is in the store (created, or skipped as a duplicate), and    *)
(* the failing row created nothing.                                         *)
C32_RowErrorDoesNotAbort ==
    (up.pc = "saved" /\ \E i \in 1..Len(WorkbookOf(UploadById(up.id))) :
                           WorkbookOf(UploadById(up.id))[i] = Faulty)
    => LET rows == load_questions_from_excel_data(WorkbookOf(UploadById(up.id))).questions
       IN /\ \A i \in 1..Len(rows) : \E q \in questions : IExact(q.text, rows[i].text)
          /\ \A q \in questions : q.text # <<Faulty>>

(* the cell between its first and its last character that is not white *)
Core(cell) ==
    LET inked == {i \in 1..Len(cell) : cell[i] \notin {9, 10, 11, 12, 13, 32}}
    IN IF inked = {} THEN <<>>
       ELSE SubSeq(cell, CHOOSE i \in inked : \A j \in inked : i <= j,
                         CHOOSE i \in inked : \A j \in inked : j <= i)

(* C33: the part of a parsed question is one of A..F: a part cell whose     *)
(* trimmed, upper-cased value is one of the six letters keeps that letter,  *)
(* every other cell, the empty one included, gives A.                       *)
C33_PartIsClamped ==
    sheet.pc = "parsed"
    => LET core == Core(sheet.cell)
           upper == IF Len(core) = 1 /\ core[1] \in 97..102 THEN <<core[1] - 32>> ELSE core
       IN /\ sheet.part \in {<<65>>, <<66>>, <<67>>, <<68>>, <<69>>, <<70>>}
          /\ IF upper \in {<<65>>, <<66>>, <<67>>, <<68>>, <<69>>, <<70>>}
             THEN sheet.part = upper
             ELSE sheet.part = <<65>>

(* the cell " f" with a tab behind it was parsed to F *)
C33_Witness ==
    /\ sheet.pc = "parsed"
    /\ sheet.cell = <<32, 102, 9>>
    /\ sheet.part = <<70>>

(* C35: the count of removed questions that delete_model reports is the     *)
(* number of Question rows the deletion removed.                            *)
C35_ReportedCountIsRemoved ==
    [][notice'.kind = "deleted"
       => notice'.count = Cardinality(questions) - Cardinality(questions')
      ]_vars

C39_TradeUpdateIsScoped ==
    [][(up.pc = "saved" /\ up'.pc = "tagged")
       => \A q \in questions : q.id \notin ledger[up.id].ids => q \in questions'
      ]_vars

(* C38: tier 2 never decides: whenever an eligible paper of the candidate's *)
(* category and trade exists, the paper given is the newest eligible paper  *)
(* of the category, which tier 1 finds.                                     *)
C38_TierTwoNeverDecides ==
    /\ \A c \in candidates :
          TierSet(2, c) # {}
          => /\ TierSet(1, c) # {}
             /\ \E p \in TierSet(1, c) :
                   /\ p.id = Select(Store, c)
                   /\ \A o \in TierSet(1, c) : o.id <= p.id
    /\ \A r \in Requests :
          (req[r].pc = "create" /\ TierSet(2, CandidateOf(r)) # {})
          => \A o \in TierSet(1, CandidateOf(r)) : o.id <= req[r].paper

(* a paper of the category and trade is eligible and the request was given  *)
(* a newer paper of the category with another trade                         *)
C38_Witness ==
    \E r \in Requests :
       /\ req[r].pc = "create"
       /\ TierSet(2, CandidateOf(r)) # {}
       /\ \E p \in papers : p.id = req[r].paper /\ p.trade # CandidateOf(r).trade

(* the shift of candidate c is assigned and its window has not opened *)
BeforeWindow(c) == c.shift # NoShift /\ \E x \in shifts : x.id = c.shift /\ clock < x.start

(* C36: while a candidate's shift is assigned and its window has not        *)
(* opened, no request of the candidate clears the shift or creates an       *)
(* ExamSession.                                                             *)
C36_NoStartBeforeWindow ==
    [][\A c \in candidates :
          BeforeWindow(c)
          => /\ c \in candidates'
             /\ \A s \in sessions' \ sessions : s.user # c.id
      ]_vars

(* the rows of the exam applications *)
ExamRows == <<papers, questions, links, sessions, examQuestions, answers, uploads, shifts>>

(* C37: a wipe by a superuser removes every row of the exam applications    *)
(* and leaves the CandidateProfile rows as they are; a wipe by anyone else  *)
(* is refused and changes nothing.                                          *)
C37_WipeRemovesAll ==
    [][/\ notice'.kind \in {"wiped", "wipe_error"}
          => /\ ExamRows' = <<{}, {}, {}, {}, {}, {}, {}, {}>>
             /\ candidates' = candidates
       /\ notice'.kind = "forbidden"
          => /\ ExamRows' = ExamRows
             /\ candidates' = candidates
      ]_vars

====
